---- MODULE Spec2Model ----
(***************************************************************************)
(* clap-digest: the feature-gated Digest enumeration, its canonical names, *)
(* its clap value parser and its conversion to a boxed DynDigest, and the  *)
(* command lines built from arg::digest() and arg::list_digests(), among   *)
(* them the cksum example.                                                 *)
(*                                                                         *)
(* A &str is modelled as the sequence of its bytes (ASCII codes), so that  *)
(* comparison, letter case and prefixes are computed, not assumed.         *)
(***************************************************************************)
EXTENDS Naturals, Integers, Sequences, FiniteSets, TLC

\* ------------------------------------------------------------------------
\* Bounds of the model
\* ------------------------------------------------------------------------

\* largest number of algorithm families enabled together in a configuration
\* (the configurations of the crate documentation are added to these)
MaxFeatures == 2

\* largest number of command-line arguments after the program name
MaxArgs == 3

\* largest number of input files of a cksum run
MaxFiles == 3

\* largest number of update calls of one thread
MaxUpdates == 2

\* ------------------------------------------------------------------------
\* Features (lib.rs)
\* ------------------------------------------------------------------------

\* the guard with its last feature forgotten
compile_error_features_without_whirlpool ==
  { "blake2", "blake3", "fsb", "gost94", "groestl", "md2", "md4", "md5",
    "ripemd", "sha1", "sha2", "sha3", "shabal", "sm3", "streebog", "tiger" }

\* the features named in the cfg(not(any(...))) guard of compile_error!
CompileErrorFeatures ==
  { "blake2", "blake3", "fsb", "gost94", "groestl", "md2", "md4", "md5",
    "ripemd", "sha1", "sha2", "sha3", "shabal", "sm3", "streebog", "tiger",
    "whirlpool" }

\* the enum Digest: variants in declaration order, each behind its feature
DigestEnum ==
  << [variant |-> "BLAKE2b512", feature |-> "blake2"],
     [variant |-> "BLAKE2s256", feature |-> "blake2"],
     [variant |-> "BLAKE3", feature |-> "blake3"],
     [variant |-> "FSB160", feature |-> "fsb"],
     [variant |-> "FSB224", feature |-> "fsb"],
     [variant |-> "FSB256", feature |-> "fsb"],
     [variant |-> "FSB384", feature |-> "fsb"],
     [variant |-> "FSB512", feature |-> "fsb"],
     [variant |-> "GOST94CryptoPro", feature |-> "gost94"],
     [variant |-> "GOST94UA", feature |-> "gost94"],
     [variant |-> "GOST94s2015", feature |-> "gost94"],
     [variant |-> "Groestl224", feature |-> "groestl"],
     [variant |-> "Groestl256", feature |-> "groestl"],
     [variant |-> "Groestl384", feature |-> "groestl"],
     [variant |-> "Groestl512", feature |-> "groestl"],
     [variant |-> "MD2", feature |-> "md2"],
     [variant |-> "MD4", feature |-> "md4"],
     [variant |-> "MD5", feature |-> "md5"],
     [variant |-> "RIPEMD160", feature |-> "ripemd"],
     [variant |-> "RIPEMD256", feature |-> "ripemd"],
     [variant |-> "RIPEMD320", feature |-> "ripemd"],
     [variant |-> "SHA1", feature |-> "sha1"],
     [variant |-> "SHA224", feature |-> "sha2"],
     [variant |-> "SHA256", feature |-> "sha2"],
     [variant |-> "SHA384", feature |-> "sha2"],
     [variant |-> "SHA512", feature |-> "sha2"],
     [variant |-> "SHA512_224", feature |-> "sha2"],
     [variant |-> "SHA512_256", feature |-> "sha2"],
     [variant |-> "SHA3_224", feature |-> "sha3"],
     [variant |-> "SHA3_256", feature |-> "sha3"],
     [variant |-> "SHA3_384", feature |-> "sha3"],
     [variant |-> "SHA3_512", feature |-> "sha3"],
     [variant |-> "SHABAL192", feature |-> "shabal"],
     [variant |-> "SHABAL224", feature |-> "shabal"],
     [variant |-> "SHABAL256", feature |-> "shabal"],
     [variant |-> "SHABAL384", feature |-> "shabal"],
     [variant |-> "SHABAL512", feature |-> "shabal"],
     [variant |-> "SM3", feature |-> "sm3"],
     [variant |-> "Streebog256", feature |-> "streebog"],
     [variant |-> "Streebog512", feature |-> "streebog"],
     [variant |-> "Tiger", feature |-> "tiger"],
     [variant |-> "Tiger2", feature |-> "tiger"],
     [variant |-> "Whirlpool", feature |-> "whirlpool"] >>

\* Digest::name: the match arms, in order
NameArms ==
  << [variant |-> "BLAKE2b512", feature |-> "blake2", name |-> <<66, 76, 65, 75, 69, 50, 98, 53, 49, 50>>],  \* "BLAKE2b512"
     [variant |-> "BLAKE2s256", feature |-> "blake2", name |-> <<66, 76, 65, 75, 69, 50, 115, 50, 53, 54>>],  \* "BLAKE2s256"
     [variant |-> "BLAKE3", feature |-> "blake3", name |-> <<66, 76, 65, 75, 69, 51>>],  \* "BLAKE3"
     [variant |-> "FSB160", feature |-> "fsb", name |-> <<70, 83, 66, 49, 54, 48>>],  \* "FSB160"
     [variant |-> "FSB224", feature |-> "fsb", name |-> <<70, 83, 66, 50, 50, 52>>],  \* "FSB224"
     [variant |-> "FSB256", feature |-> "fsb", name |-> <<70, 83, 66, 50, 53, 54>>],  \* "FSB256"
     [variant |-> "FSB384", feature |-> "fsb", name |-> <<70, 83, 66, 51, 56, 52>>],  \* "FSB384"
     [variant |-> "FSB512", feature |-> "fsb", name |-> <<70, 83, 66, 53, 49, 50>>],  \* "FSB512"
     [variant |-> "GOST94CryptoPro", feature |-> "gost94", name |-> <<71, 79, 83, 84, 57, 52, 67, 114, 121, 112, 116, 111, 80, 114, 111>>],  \* "GOST94CryptoPro"
     [variant |-> "GOST94UA", feature |-> "gost94", name |-> <<71, 79, 83, 84, 57, 52, 85, 65>>],  \* "GOST94UA"
     [variant |-> "GOST94s2015", feature |-> "gost94", name |-> <<71, 79, 83, 84, 57, 52, 115, 50, 48, 49, 53>>],  \* "GOST94s2015"
     [variant |-> "Groestl224", feature |-> "groestl", name |-> <<71, 114, 111, 101, 115, 116, 108, 50, 50, 52>>],  \* "Groestl224"
     [variant |-> "Groestl256", feature |-> "groestl", name |-> <<71, 114, 111, 101, 115, 116, 108, 50, 53, 54>>],  \* "Groestl256"
     [variant |-> "Groestl384", feature |-> "groestl", name |-> <<71, 114, 111, 101, 115, 116, 108, 51, 56, 52>>],  \* "Groestl384"
     [variant |-> "Groestl512", feature |-> "groestl", name |-> <<71, 114, 111, 101, 115, 116, 108, 53, 49, 50>>],  \* "Groestl512"
     [variant |-> "MD2", feature |-> "md2", name |-> <<77, 68, 50>>],  \* "MD2"
     [variant |-> "MD4", feature |-> "md4", name |-> <<77, 68, 52>>],  \* "MD4"
     [variant |-> "MD5", feature |-> "md5", name |-> <<77, 68, 53>>],  \* "MD5"
     [variant |-> "RIPEMD160", feature |-> "ripemd", name |-> <<82, 73, 80, 69, 77, 68, 49, 54, 48>>],  \* "RIPEMD160"
     [variant |-> "RIPEMD256", feature |-> "ripemd", name |-> <<82, 73, 80, 69, 77, 68, 50, 53, 54>>],  \* "RIPEMD256"
     [variant |-> "RIPEMD320", feature |-> "ripemd", name |-> <<82, 73, 80, 69, 77, 68, 51, 50, 48>>],  \* "RIPEMD320"
     [variant |-> "SHA1", feature |-> "sha1", name |-> <<83, 72, 65, 49>>],  \* "SHA1"
     [variant |-> "SHA224", feature |-> "sha2", name |-> <<83, 72, 65, 50, 50, 52>>],  \* "SHA224"
     [variant |-> "SHA256", feature |-> "sha2", name |-> <<83, 72, 65, 50, 53, 54>>],  \* "SHA256"
     [variant |-> "SHA384", feature |-> "sha2", name |-> <<83, 72, 65, 51, 56, 52>>],  \* "SHA384"
     [variant |-> "SHA512", feature |-> "sha2", name |-> <<83, 72, 65, 53, 49, 50>>],  \* "SHA512"
     [variant |-> "SHA512_224", feature |-> "sha2", name |-> <<83, 72, 65, 53, 49, 50, 47, 50, 50, 52>>],  \* "SHA512/224"
     [variant |-> "SHA512_256", feature |-> "sha2", name |-> <<83, 72, 65, 53, 49, 50, 47, 50, 53, 54>>],  \* "SHA512/256"
     [variant |-> "SHA3_224", feature |-> "sha3", name |-> <<83, 72, 65, 51, 45, 50, 50, 52>>],  \* "SHA3-224"
     [variant |-> "SHA3_256", feature |-> "sha3", name |-> <<83, 72, 65, 51, 45, 50, 53, 54>>],  \* "SHA3-256"
     [variant |-> "SHA3_384", feature |-> "sha3", name |-> <<83, 72, 65, 51, 45, 51, 56, 52>>],  \* "SHA3-384"
     [variant |-> "SHA3_512", feature |-> "sha3", name |-> <<83, 72, 65, 51, 45, 53, 49, 50>>],  \* "SHA3-512"
     [variant |-> "SHABAL192", feature |-> "shabal", name |-> <<83, 104, 97, 98, 97, 108, 45, 49, 57, 50>>],  \* "Shabal-192"
     [variant |-> "SHABAL224", feature |-> "shabal", name |-> <<83, 104, 97, 98, 97, 108, 45, 50, 50, 52>>],  \* "Shabal-224"
     [variant |-> "SHABAL256", feature |-> "shabal", name |-> <<83, 104, 97, 98, 97, 108, 45, 50, 53, 54>>],  \* "Shabal-256"
     [variant |-> "SHABAL384", feature |-> "shabal", name |-> <<83, 104, 97, 98, 97, 108, 45, 51, 56, 52>>],  \* "Shabal-384"
     [variant |-> "SHABAL512", feature |-> "shabal", name |-> <<83, 104, 97, 98, 97, 108, 45, 53, 49, 50>>],  \* "Shabal-512"
     [variant |-> "SM3", feature |-> "sm3", name |-> <<83, 77, 51>>],  \* "SM3"
     [variant |-> "Streebog256", feature |-> "streebog", name |-> <<83, 116, 114, 101, 101, 98, 111, 103, 45, 50, 53, 54>>],  \* "Streebog-256"
     [variant |-> "Streebog512", feature |-> "streebog", name |-> <<83, 116, 114, 101, 101, 98, 111, 103, 45, 53, 49, 50>>],  \* "Streebog-512"
     [variant |-> "Tiger", feature |-> "tiger", name |-> <<84, 105, 103, 101, 114>>],  \* "Tiger"
     [variant |-> "Tiger2", feature |-> "tiger", name |-> <<84, 105, 103, 101, 114, 50>>],  \* "Tiger2"
     [variant |-> "Whirlpool", feature |-> "whirlpool", name |-> <<87, 104, 105, 114, 108, 112, 111, 111, 108>>] >>  \* "Whirlpool"

\* the slice with its last entry forgotten
value_variants_table_without_whirlpool ==
  [i \in 1..(Len(DigestEnum) - 1) |-> DigestEnum[i]]

\* ValueEnum::value_variants: the entries of the slice, in order
ValueVariantsTable ==
  << [variant |-> "BLAKE2b512", feature |-> "blake2"],
     [variant |-> "BLAKE2s256", feature |-> "blake2"],
     [variant |-> "BLAKE3", feature |-> "blake3"],
     [variant |-> "FSB160", feature |-> "fsb"],
     [variant |-> "FSB224", feature |-> "fsb"],
     [variant |-> "FSB256", feature |-> "fsb"],
     [variant |-> "FSB384", feature |-> "fsb"],
     [variant |-> "FSB512", feature |-> "fsb"],
     [variant |-> "GOST94CryptoPro", feature |-> "gost94"],
     [variant |-> "GOST94UA", feature |-> "gost94"],
     [variant |-> "GOST94s2015", feature |-> "gost94"],
     [variant |-> "Groestl224", feature |-> "groestl"],
     [variant |-> "Groestl256", feature |-> "groestl"],
     [variant |-> "Groestl384", feature |-> "groestl"],
     [variant |-> "Groestl512", feature |-> "groestl"],
     [variant |-> "MD2", feature |-> "md2"],
     [variant |-> "MD4", feature |-> "md4"],
     [variant |-> "MD5", feature |-> "md5"],
     [variant |-> "RIPEMD160", feature |-> "ripemd"],
     [variant |-> "RIPEMD256", feature |-> "ripemd"],
     [variant |-> "RIPEMD320", feature |-> "ripemd"],
     [variant |-> "SHA1", feature |-> "sha1"],
     [variant |-> "SHA224", feature |-> "sha2"],
     [variant |-> "SHA256", feature |-> "sha2"],
     [variant |-> "SHA384", feature |-> "sha2"],
     [variant |-> "SHA512", feature |-> "sha2"],
     [variant |-> "SHA512_224", feature |-> "sha2"],
     [variant |-> "SHA512_256", feature |-> "sha2"],
     [variant |-> "SHA3_224", feature |-> "sha3"],
     [variant |-> "SHA3_256", feature |-> "sha3"],
     [variant |-> "SHA3_384", feature |-> "sha3"],
     [variant |-> "SHA3_512", feature |-> "sha3"],
     [variant |-> "SHABAL192", feature |-> "shabal"],
     [variant |-> "SHABAL224", feature |-> "shabal"],
     [variant |-> "SHABAL256", feature |-> "shabal"],
     [variant |-> "SHABAL384", feature |-> "shabal"],
     [variant |-> "SHABAL512", feature |-> "shabal"],
     [variant |-> "SM3", feature |-> "sm3"],
     [variant |-> "Streebog256", feature |-> "streebog"],
     [variant |-> "Streebog512", feature |-> "streebog"],
     [variant |-> "Tiger", feature |-> "tiger"],
     [variant |-> "Tiger2", feature |-> "tiger"],
     [variant |-> "Whirlpool", feature |-> "whirlpool"] >>

\* From<Digest> for Box<dyn DynDigest>: the match arms, in order
FromArms ==
  << [variant |-> "BLAKE2b512", feature |-> "blake2", hasher |-> "blake2::Blake2b512"],
     [variant |-> "BLAKE2s256", feature |-> "blake2", hasher |-> "blake2::Blake2s256"],
     [variant |-> "BLAKE3", feature |-> "blake3", hasher |-> "blake3::Hasher"],
     [variant |-> "FSB160", feature |-> "fsb", hasher |-> "fsb::Fsb160"],
     [variant |-> "FSB224", feature |-> "fsb", hasher |-> "fsb::Fsb224"],
     [variant |-> "FSB256", feature |-> "fsb", hasher |-> "fsb::Fsb256"],
     [variant |-> "FSB384", feature |-> "fsb", hasher |-> "fsb::Fsb384"],
     [variant |-> "FSB512", feature |-> "fsb", hasher |-> "fsb::Fsb512"],
     [variant |-> "GOST94CryptoPro", feature |-> "gost94", hasher |-> "gost94::Gost94CryptoPro"],
     [variant |-> "GOST94UA", feature |-> "gost94", hasher |-> "gost94::Gost94UA"],
     [variant |-> "GOST94s2015", feature |-> "gost94", hasher |-> "gost94::Gost94s2015"],
     [variant |-> "Groestl224", feature |-> "groestl", hasher |-> "groestl::Groestl224"],
     [variant |-> "Groestl256", feature |-> "groestl", hasher |-> "groestl::Groestl256"],
     [variant |-> "Groestl384", feature |-> "groestl", hasher |-> "groestl::Groestl384"],
     [variant |-> "Groestl512", feature |-> "groestl", hasher |-> "groestl::Groestl512"],
     [variant |-> "MD2", feature |-> "md2", hasher |-> "md2::Md2"],
     [variant |-> "MD4", feature |-> "md4", hasher |-> "md4::Md4"],
     [variant |-> "MD5", feature |-> "md5", hasher |-> "md5::Md5"],
     [variant |-> "RIPEMD160", feature |-> "ripemd", hasher |-> "ripemd::Ripemd160"],
     [variant |-> "RIPEMD256", feature |-> "ripemd", hasher |-> "ripemd::Ripemd256"],
     [variant |-> "RIPEMD320", feature |-> "ripemd", hasher |-> "ripemd::Ripemd320"],
     [variant |-> "SHA1", feature |-> "sha1", hasher |-> "sha1::Sha1"],
     [variant |-> "SHA224", feature |-> "sha2", hasher |-> "sha2::Sha224"],
     [variant |-> "SHA256", feature |-> "sha2", hasher |-> "sha2::Sha256"],
     [variant |-> "SHA384", feature |-> "sha2", hasher |-> "sha2::Sha384"],
     [variant |-> "SHA512", feature |-> "sha2", hasher |-> "sha2::Sha512"],
     [variant |-> "SHA512_224", feature |-> "sha2", hasher |-> "sha2::Sha512_224"],
     [variant |-> "SHA512_256", feature |-> "sha2", hasher |-> "sha2::Sha512_256"],
     [variant |-> "SHA3_224", feature |-> "sha3", hasher |-> "sha3::Sha3_224"],
     [variant |-> "SHA3_256", feature |-> "sha3", hasher |-> "sha3::Sha3_256"],
     [variant |-> "SHA3_384", feature |-> "sha3", hasher |-> "sha3::Sha3_384"],
     [variant |-> "SHA3_512", feature |-> "sha3", hasher |-> "sha3::Sha3_512"],
     [variant |-> "SHABAL192", feature |-> "shabal", hasher |-> "shabal::Shabal192"],
     [variant |-> "SHABAL224", feature |-> "shabal", hasher |-> "shabal::Shabal224"],
     [variant |-> "SHABAL256", feature |-> "shabal", hasher |-> "shabal::Shabal256"],
     [variant |-> "SHABAL384", feature |-> "shabal", hasher |-> "shabal::Shabal384"],
     [variant |-> "SHABAL512", feature |-> "shabal", hasher |-> "shabal::Shabal512"],
     [variant |-> "SM3", feature |-> "sm3", hasher |-> "sm3::Sm3"],
     [variant |-> "Streebog256", feature |-> "streebog", hasher |-> "streebog::Streebog256"],
     [variant |-> "Streebog512", feature |-> "streebog", hasher |-> "streebog::Streebog512"],
     [variant |-> "Tiger", feature |-> "tiger", hasher |-> "tiger::Tiger"],
     [variant |-> "Tiger2", feature |-> "tiger", hasher |-> "tiger::Tiger2"],
     [variant |-> "Whirlpool", feature |-> "whirlpool", hasher |-> "whirlpool::Whirlpool"] >>

\* ------------------------------------------------------------------------
\* Build configurations
\* ------------------------------------------------------------------------

\* every feature that gates a variant, a match arm or a table entry
GateFeatures ==
  { DigestEnum[i].feature : i \in DOMAIN DigestEnum } \cup
  { NameArms[i].feature : i \in DOMAIN NameArms } \cup
  { ValueVariantsTable[i].feature : i \in DOMAIN ValueVariantsTable } \cup
  { FromArms[i].feature : i \in DOMAIN FromArms }

Features == GateFeatures \cup CompileErrorFeatures

\* cargo run --example cksum --no-default-features --features md5,sha1,sha2
DocExampleFeatures == { "md5", "sha1", "sha2" }

Configurations ==
  { c \in SUBSET Features : Cardinality(c) <= MaxFeatures } \cup
  { DocExampleFeatures, Features }

\* the crate compiles unless the compile_error! guard fires
Builds(cfg) == cfg \cap CompileErrorFeatures # {}

\* the rows of a cfg-gated table that are compiled in
Gated(table, cfg) == SelectSeq(table, LAMBDA r : r.feature \in cfg)

First(S) == CHOOSE i \in S : \A j \in S : i <= j

\* ------------------------------------------------------------------------
\* &str
\* ------------------------------------------------------------------------

to_ascii_lowercase(c) == IF c >= 65 /\ c <= 90 THEN c + 32 ELSE c

to_ascii_uppercase(c) == IF c >= 97 /\ c <= 122 THEN c - 32 ELSE c

Lower(s) == [i \in 1..Len(s) |-> to_ascii_lowercase(s[i])]

Upper(s) == [i \in 1..Len(s) |-> to_ascii_uppercase(s[i])]

eq_ignore_case(a, b) == Lower(a) = Lower(b)

\* Ord for str: bytewise lexicographic, a proper prefix is less
StrLess(a, b) ==
  \E k \in 0..Len(a) :
     /\ k <= Len(b)
     /\ \A i \in 1..k : a[i] = b[i]
     /\ \/ k = Len(a) /\ k < Len(b)
        \/ k < Len(a) /\ k < Len(b) /\ a[k + 1] < b[k + 1]

starts_with(s, p) == Len(p) <= Len(s) /\ SubSeq(s, 1, Len(p)) = p

\* ------------------------------------------------------------------------
\* Digest (lib.rs)
\* ------------------------------------------------------------------------

\* the variants of the enum that exist in a configuration
Variants(cfg) ==
  { DigestEnum[i].variant : i \in { j \in DOMAIN DigestEnum : DigestEnum[j].feature \in cfg } }

\* a match with no arm for the value
NoArm == << -1 >>

\* Digest::name: the first compiled-in arm for the variant
name(cfg, id) ==
  LET arms == Gated(NameArms, cfg)
      hit  == { i \in DOMAIN arms : arms[i].variant = id }
  IN  IF hit = {} THEN NoArm ELSE arms[First(hit)].name

\* a Display that prints the name in lower case
fmt_lowercase(cfg, id) == Lower(name(cfg, id))

\* impl Display for Digest: write!(f, "{}", self.name())
fmt(cfg, id) == name(cfg, id)

\* the slice in the opposite order
value_variants_reversed(cfg) ==
  LET rows == Gated(ValueVariantsTable, cfg)
  IN  [i \in 1..Len(rows) |-> rows[Len(rows) + 1 - i].variant]

\* ValueEnum::value_variants: the compiled-in entries of the slice, in order
value_variants(cfg) ==
  LET rows == Gated(ValueVariantsTable, cfg)
  IN  [i \in 1..Len(rows) |-> rows[i].variant]

\* ValueEnum::to_possible_value: Some(PossibleValue::new(self.name()))
to_possible_value(cfg, id) == name(cfg, id)

\* a match that ignores letter case whatever the argument says
matches_ignoring_case(pv, value, ignore_case) == eq_ignore_case(pv, value)

\* PossibleValue::matches on a value without aliases
matches(pv, value, ignore_case) ==
  IF ignore_case THEN eq_ignore_case(pv, value) ELSE pv = value

Ok(v) == [ok |-> TRUE, value |-> v]

Err(k) == [ok |-> FALSE, kind |-> k]

\* EnumValueParser::<Digest>::parse_ref: the first entry of value_variants
\* whose possible value matches
parse_ref(cfg, value, ignore_case) ==
  LET vs  == value_variants(cfg)
      hit == { i \in DOMAIN vs : matches(to_possible_value(cfg, vs[i]), value, ignore_case) }
  IN  IF hit = {} THEN Err("InvalidValue") ELSE Ok(vs[First(hit)])

\* a conversion whose arms are not cfg-gated
From_ungated(cfg, id) ==
  LET hit == { i \in DOMAIN FromArms : FromArms[i].variant = id }
  IN  IF hit = {} THEN Err("NoArm") ELSE Ok(FromArms[First(hit)].hasher)

\* From<Digest> for Box<dyn DynDigest>: Box::<T>::default() of the arm
From(cfg, id) ==
  LET arms == Gated(FromArms, cfg)
      hit  == { i \in DOMAIN arms : arms[i].variant = id }
  IN  IF hit = {} THEN Err("NoArm") ELSE Ok(arms[First(hit)].hasher)

\* an ordering by canonical name instead of by place in the enum
discriminant_by_name(cfg, id) ==
  Cardinality({ v \in Variants(cfg) : StrLess(name(cfg, v), name(cfg, id)) })

\* derive(PartialOrd, Ord): variants compare by their place in the enum
discriminant(cfg, id) ==
  LET vs == Gated(DigestEnum, cfg)
  IN  First({ i \in DOMAIN vs : vs[i].variant = id }) - 1

cmp(cfg, a, b) ==
  IF discriminant(cfg, a) < discriminant(cfg, b) THEN "Less"
  ELSE IF discriminant(cfg, a) = discriminant(cfg, b) THEN "Equal"
  ELSE "Greater"

\* ------------------------------------------------------------------------
\* Box<dyn DynDigest>
\* ------------------------------------------------------------------------

\* DynDigest::output_size of the type an arm of From constructs, in bytes
output_size(ty) ==
  CASE ty = "blake2::Blake2b512" -> 64
    [] ty = "blake2::Blake2s256" -> 32
    [] ty = "blake3::Hasher" -> 32
    [] ty = "fsb::Fsb160" -> 20
    [] ty = "fsb::Fsb224" -> 28
    [] ty = "fsb::Fsb256" -> 32
    [] ty = "fsb::Fsb384" -> 48
    [] ty = "fsb::Fsb512" -> 64
    [] ty = "gost94::Gost94CryptoPro" -> 32
    [] ty = "gost94::Gost94UA" -> 32
    [] ty = "gost94::Gost94s2015" -> 32
    [] ty = "groestl::Groestl224" -> 28
    [] ty = "groestl::Groestl256" -> 32
    [] ty = "groestl::Groestl384" -> 48
    [] ty = "groestl::Groestl512" -> 64
    [] ty = "md2::Md2" -> 16
    [] ty = "md4::Md4" -> 16
    [] ty = "md5::Md5" -> 16
    [] ty = "ripemd::Ripemd160" -> 20
    [] ty = "ripemd::Ripemd256" -> 32
    [] ty = "ripemd::Ripemd320" -> 40
    [] ty = "sha1::Sha1" -> 20
    [] ty = "sha2::Sha224" -> 28
    [] ty = "sha2::Sha256" -> 32
    [] ty = "sha2::Sha384" -> 48
    [] ty = "sha2::Sha512" -> 64
    [] ty = "sha2::Sha512_224" -> 28
    [] ty = "sha2::Sha512_256" -> 32
    [] ty = "sha3::Sha3_224" -> 28
    [] ty = "sha3::Sha3_256" -> 32
    [] ty = "sha3::Sha3_384" -> 48
    [] ty = "sha3::Sha3_512" -> 64
    [] ty = "shabal::Shabal192" -> 24
    [] ty = "shabal::Shabal224" -> 28
    [] ty = "shabal::Shabal256" -> 32
    [] ty = "shabal::Shabal384" -> 48
    [] ty = "shabal::Shabal512" -> 64
    [] ty = "sm3::Sm3" -> 32
    [] ty = "streebog::Streebog256" -> 32
    [] ty = "streebog::Streebog512" -> 64
    [] ty = "tiger::Tiger" -> 24
    [] ty = "tiger::Tiger2" -> 24
    [] ty = "whirlpool::Whirlpool" -> 64

\* the digest of an input: a stand-in for the algorithms of the hash crates,
\* a fixed function of the type and of every byte of the input in its place,
\* of the length the type has
digest_bytes(ty, data) ==
  LET RECURSIVE weigh(_)
      weigh(j) == IF j = 0 THEN 0 ELSE (weigh(j - 1) + j * data[j]) % 256
      mix == (weigh(Len(data)) + 31 * Len(data) + output_size(ty)) % 256
  IN  [i \in 1..output_size(ty) |-> (mix + 7 * i) % 256]

\* a hasher that keeps one state for every hasher of its type
Box_default_shared(heap, ty) ==
  LET same == { h \in DOMAIN heap : heap[h].alg = ty }
  IN  IF same = {}
      THEN [heap |-> Append(heap, [alg |-> ty, buf |-> << >>]), handle |-> Len(heap) + 1]
      ELSE [heap |-> heap, handle |-> First(same)]

\* Box::<T>::default(): a new allocation holding a hasher that has seen no
\* input; the heap is the sequence of the boxes allocated so far
Box_default(heap, ty) ==
  [heap |-> Append(heap, [alg |-> ty, buf |-> << >>]), handle |-> Len(heap) + 1]

\* DynDigest::update: the input is appended to what the hasher has seen
update(h, bytes) == [h EXCEPT !.buf = @ \o bytes]

\* DynDigest::finalize_reset: the digest of what the hasher has seen since
\* its construction or its last reset, and the hasher as newly constructed
finalize_reset(h) ==
  [hash |-> digest_bytes(h.alg, h.buf), hasher |-> [h EXCEPT !.buf = << >>]]

\* a hash_path that finalizes without resetting the hasher
hash_path_without_reset(h, content) ==
  [hash |-> digest_bytes(h.alg, h.buf \o content), hasher |-> update(h, content)]

\* hash_path once read_to_string has returned the content of the file
hash_path(h, content) == finalize_reset(update(h, content))

HexDigit(d) == IF d < 10 THEN 48 + d ELSE 87 + d

\* hash.iter().map(|byte| format!("{:02x}", byte)).collect()
RECURSIVE hex(_)
hex(bytes) ==
  IF bytes = << >> THEN << >>
  ELSE << HexDigit(bytes[1] \div 16), HexDigit(bytes[1] % 16) >> \o hex(Tail(bytes))

\* format!("{hash}  {input}")
hash_line(hash, path) == hex(hash) \o <<32, 32>> \o path

\* ------------------------------------------------------------------------
\* arg.rs
\* ------------------------------------------------------------------------

NoName == << >>

\* Arg::new(id) before any builder call
ArgNew(id) ==
  [id |-> id, short |-> NoName, long |-> NoName, takes_value |-> FALSE,
   multiple_values |-> FALSE, required_unless_present |-> NoName,
   ignore_case |-> FALSE, value_parser |-> "String"]

\* Arg::long strips the leading '-' characters of the name it is given
trim_dashes(s) ==
  LET n == Len(s)
      k == IF \A i \in 1..n : s[i] = 45 THEN n
           ELSE First({ i \in 1..n : s[i] # 45 }) - 1
  IN  SubSeq(s, k + 1, n)

S_digest == <<100, 105, 103, 101, 115, 116>>  \* "digest"

S_list_digests == <<108, 105, 115, 116, 45, 100, 105, 103, 101, 115, 116, 115>>  \* "list-digests"

\* arg::digest()
digest ==
  [ArgNew(S_digest) EXCEPT !.short = <<100>>, !.long = trim_dashes(S_digest),
                           !.takes_value = TRUE, !.value_parser = "EnumValueParser<Digest>"]

\* a list flag that expects a value
list_digests_takes_value ==
  [ArgNew(S_list_digests) EXCEPT !.long = trim_dashes(S_list_digests),
                                 !.takes_value = TRUE]

\* arg::list_digests()
list_digests ==
  [ArgNew(S_list_digests) EXCEPT !.long = trim_dashes(S_list_digests)]

\* the value parser of the digest option applied to a text
parse(cfg, text) == parse_ref(cfg, text, digest.ignore_case)

\* ------------------------------------------------------------------------
\* Commands (arg.rs doc tests, examples/cksum.rs)
\* ------------------------------------------------------------------------

S_algorithm == <<97, 108, 103, 111, 114, 105, 116, 104, 109>>  \* "algorithm"

S_list_algorithms == <<108, 105, 115, 116, 45, 97, 108, 103, 111, 114, 105, 116, 104, 109, 115>>  \* "list-algorithms"

S_dd_list_algorithms == <<45, 45, 108, 105, 115, 116, 45, 97, 108, 103, 111, 114, 105, 116, 104, 109, 115>>  \* "--list-algorithms"

S_input == <<105, 110, 112, 117, 116>>  \* "input"

\* the two arguments composed without the requirement
myapp_cli_not_required == << digest, list_digests >>

\* Command::new("myapp").arg(digest().required_unless_present("list-digests"))
\*                      .arg(list_digests())
myapp_cli ==
  << [digest EXCEPT !.required_unless_present = S_list_digests], list_digests >>

\* Command::new("myapp").arg(clap_digest::arg::digest())
digest_cli == << digest >>

\* Command::new("myapp").arg(clap_digest::arg::list_digests())
list_cli == << list_digests >>

\* cksum.rs: let algorithm = Arg::with_name("algorithm")...
algorithm ==
  [ArgNew(S_algorithm) EXCEPT !.short = <<97>>, !.long = trim_dashes(S_algorithm),
                              !.takes_value = TRUE,
                              !.required_unless_present = S_list_algorithms,
                              !.value_parser = "EnumValueParser<Digest>"]

\* cksum.rs: let list_algorithms = Arg::with_name("list-algorithms")...
list_algorithms ==
  [ArgNew(S_list_algorithms) EXCEPT !.long = trim_dashes(S_dd_list_algorithms)]

\* cksum.rs: let input = Arg::with_name("input")...
input ==
  [ArgNew(S_input) EXCEPT !.required_unless_present = S_list_algorithms,
                          !.takes_value = TRUE, !.multiple_values = TRUE]

\* cksum.rs: fn cli()
cli == << input, algorithm, list_algorithms >>

Command(app) ==
  CASE app = "myapp" -> myapp_cli
    [] app = "myapp_digest" -> digest_cli
    [] app = "myapp_list" -> list_cli
    [] app = "cksum" -> cli

\* ------------------------------------------------------------------------
\* Command::get_matches_from
\* ------------------------------------------------------------------------

is_positional(a) == a.short = NoName /\ a.long = NoName

Ids(cmd) == { cmd[k].id : k \in DOMAIN cmd }

\* ArgMatches before any argument is seen
EmptyMatches(cmd) == [id \in Ids(cmd) |-> [occurs |-> 0, vals |-> << >>]]

\* one more occurrence of an argument, with the values it brought
Matched(m, id, vs) ==
  [m EXCEPT ![id] = [occurs |-> @.occurs + 1, vals |-> @.vals \o vs]]

\* the value parser of the argument on one raw value
parse_value(cfg, a, raw) ==
  IF a.value_parser = "EnumValueParser<Digest>"
  THEN parse_ref(cfg, raw, a.ignore_case)
  ELSE Ok(raw)

\* Validator::validate: required arguments, then values, then occurrences
validate(cmd, m) ==
  IF \E k \in DOMAIN cmd :
       /\ cmd[k].required_unless_present # NoName
       /\ m[cmd[k].id].occurs = 0
       /\ \/ cmd[k].required_unless_present \notin Ids(cmd)
          \/ m[cmd[k].required_unless_present].occurs = 0
  THEN Err("MissingRequiredArgument")
  ELSE IF \E k \in DOMAIN cmd :
            cmd[k].takes_value /\ m[cmd[k].id].occurs > 0 /\ m[cmd[k].id].vals = << >>
  THEN Err("EmptyValue")
  ELSE IF \E k \in DOMAIN cmd :
            ~is_positional(cmd[k]) /\ m[cmd[k].id].occurs > 1
  THEN Err("UnexpectedMultipleUsage")
  ELSE Ok(m)

\* the parser over the arguments from position i on.  A token is "--long",
\* "-s" or a plain value; an option takes the next token as its value
\* unless that token starts with '-'.
RECURSIVE parse_from(_, _, _, _, _)
parse_from(cfg, cmd, args, i, m) ==
  IF i > Len(args) THEN validate(cmd, m)
  ELSE
    LET tok    == args[i]
        isLong == starts_with(tok, <<45, 45>>) /\ Len(tok) > 2
        isShort == ~isLong /\ Len(tok) = 2 /\ tok[1] = 45
        hit    == IF isLong
                  THEN { k \in DOMAIN cmd : cmd[k].long = SubSeq(tok, 3, Len(tok)) }
                  ELSE IF isShort
                  THEN { k \in DOMAIN cmd : cmd[k].short = SubSeq(tok, 2, 2) }
                  ELSE { k \in DOMAIN cmd : is_positional(cmd[k]) }
    IN  IF hit = {} THEN Err("UnknownArgument")
        ELSE
          LET a == cmd[First(hit)]
          IN  IF is_positional(a)
              THEN IF m[a.id].vals # << >> /\ ~a.multiple_values
                   THEN Err("UnknownArgument")
                   ELSE LET v == parse_value(cfg, a, tok)
                        IN  IF ~v.ok THEN v
                            ELSE parse_from(cfg, cmd, args, i + 1,
                                            Matched(m, a.id, << v.value >>))
              ELSE IF ~a.takes_value
              THEN parse_from(cfg, cmd, args, i + 1, Matched(m, a.id, << >>))
              ELSE IF i + 1 > Len(args) \/ starts_with(args[i + 1], <<45>>)
              THEN parse_from(cfg, cmd, args, i + 1, Matched(m, a.id, << >>))
              ELSE LET v == parse_value(cfg, a, args[i + 1])
                   IN  IF ~v.ok THEN v
                       ELSE parse_from(cfg, cmd, args, i + 2,
                                       Matched(m, a.id, << v.value >>))

get_matches_from(cfg, cmd, args) == parse_from(cfg, cmd, args, 1, EmptyMatches(cmd))

\* ArgMatches::is_present / contains_id
is_present(m, id) == m[id].occurs > 0

\* ArgMatches::get_one
get_one(m, id) == m[id].vals[1]

\* ArgMatches::values_of
values_of(m, id) == m[id].vals

\* ------------------------------------------------------------------------
\* Inputs of the registry operations
\* ------------------------------------------------------------------------

AllVariants == { DigestEnum[i].variant : i \in DOMAIN DigestEnum }

AllNames == { NameArms[i].name : i \in DOMAIN NameArms }

S_empty == << >>  \* ""

S_not_a_real_algorithm ==
  <<110, 111, 116, 45, 97, 45, 114, 101, 97, 108, 45, 97, 108, 103, 111, 114, 105, 116, 104, 109>>  \* "not-a-real-algorithm"

\* canonical names, the same with changed letter case, with the last
\* character dropped, and the two texts no algorithm has
Texts ==
  AllNames \cup { Lower(n) : n \in AllNames } \cup { Upper(n) : n \in AllNames }
    \cup { SubSeq(n, 1, Len(n) - 1) : n \in AllNames }
    \cup { S_empty, S_not_a_real_algorithm }

\* ------------------------------------------------------------------------
\* Inputs of the commands
\* ------------------------------------------------------------------------

Apps == { "myapp", "myapp_digest", "myapp_list", "cksum" }

\* the builds the commands are run in: one family, the families of the
\* documented --features md5,sha1,sha2 run, and all families
CliConfigurations == { { "md5" }, DocExampleFeatures, Features }

S_MD5 == <<77, 68, 53>>  \* "MD5"

S_SHA1 == <<83, 72, 65, 49>>  \* "SHA1"

T_digest == <<45, 45, 100, 105, 103, 101, 115, 116>>  \* "--digest"

T_d == <<45, 100>>  \* "-d"

T_list_digests == <<45, 45, 108, 105, 115, 116, 45, 100, 105, 103, 101, 115, 116, 115>>  \* "--list-digests"

T_algorithm == <<45, 45, 97, 108, 103, 111, 114, 105, 116, 104, 109>>  \* "--algorithm"

T_a == <<45, 97>>  \* "-a"

T_list_algorithms == S_dd_list_algorithms  \* "--list-algorithms"

T_Cargo_toml == <<67, 97, 114, 103, 111, 46, 116, 111, 109, 108>>  \* "Cargo.toml"

ArgvTokens ==
  { T_digest, T_d, T_list_digests, T_algorithm, T_a, T_list_algorithms,
    S_MD5, S_SHA1, T_Cargo_toml }

Argvs == UNION { [1..n -> ArgvTokens] : n \in 0..MaxArgs }

S_foo == <<102, 111, 111>>  \* "foo"

\* what read_to_string can return for an existing text file
FileContents == { S_empty, S_foo }

\* ------------------------------------------------------------------------
\* State
\* ------------------------------------------------------------------------

VARIABLES
  features,   \* the enabled algorithm families of the build
  pc,         \* where the build or the run is
  call,       \* the last registry operation: its name, argument and result
  prevList,   \* the result of the latest list() call that returned, if any
  app,        \* the command that is run
  argv,       \* its arguments, without the program name
  m,          \* the ArgMatches of the run
  error,      \* the error the run ended with
  stdout,     \* the lines printed
  hasher,     \* the Box<dyn DynDigest> of the run: its place in boxes
  reads,      \* the calls of read_to_string: the path and the result
  idx,        \* the position of the loop over the inputs
  exit,       \* the exit status
  boxes,      \* the Box<dyn DynDigest> allocated so far, each with its state
  threads     \* the threads that use the crate at the same time

regVars == <<call, prevList>>

cliVars == <<app, argv, m, error, stdout, hasher, reads, idx, exit>>

thrVars == <<boxes, threads>>

vars == <<features, pc, call, prevList, app, argv, m, error, stdout, hasher, reads, idx, exit,
          boxes, threads>>

NoCall == [op |-> "none"]

NoList == << "none" >>

NoMatches == [none |-> TRUE]

NoHasher == 0

NoThreads == << >>

NoExit == -1

NoRun ==
  /\ m = NoMatches
  /\ error = "none"
  /\ stdout = << >>
  /\ hasher = NoHasher
  /\ reads = << >>
  /\ idx = 0
  /\ exit = NoExit

\* a build about to be compiled and used through the registry operations
Init ==
  /\ features \in Configurations
  /\ pc = "build"
  /\ call = NoCall
  /\ prevList = NoList
  /\ app = "none"
  /\ argv = << >>
  /\ NoRun
  /\ boxes = << >>
  /\ threads = NoThreads

\* cargo build: compile_error! unless a family feature is enabled
Compile ==
  /\ pc = "build"
  /\ pc' = IF Builds(features) THEN "ready" ELSE "compile_error"
  /\ UNCHANGED <<features, call, prevList, cliVars, thrVars>>

\* Digest::value_variants()
CallList ==
  /\ pc = "ready"
  /\ pc' = "called"
  /\ call' = [op |-> "list", result |-> value_variants(features)]
  /\ UNCHANGED <<features, prevList, cliVars, thrVars>>

\* id.name()
CallName ==
  /\ pc = "ready"
  /\ pc' = "called"
  /\ \E id \in Variants(features) :
       call' = [op |-> "name", arg |-> id, result |-> name(features, id)]
  /\ UNCHANGED <<features, prevList, cliVars, thrVars>>

\* the value parser of arg::digest() on a text
CallParse ==
  /\ pc = "ready"
  /\ pc' = "called"
  /\ \E t \in Texts :
       call' = [op |-> "parse", arg |-> t, result |-> parse(features, t)]
  /\ UNCHANGED <<features, prevList, cliVars, thrVars>>

\* let hasher: Box<dyn DynDigest> = id.into()
CallInstantiate ==
  /\ pc = "ready"
  /\ pc' = "called"
  /\ \E id \in Variants(features) :
       call' = [op |-> "instantiate", arg |-> id, result |-> From(features, id)]
  /\ UNCHANGED <<features, prevList, cliVars, thrVars>>

\* a.cmp(&b)
CallCmp ==
  /\ pc = "ready"
  /\ pc' = "called"
  /\ \E a \in Variants(features), b \in Variants(features) :
       call' = [op |-> "cmp", arg |-> <<a, b>>, result |-> cmp(features, a, b)]
  /\ UNCHANGED <<features, prevList, cliVars, thrVars>>

\* the caller takes the result and goes on; the registry keeps nothing of
\* the call (the model remembers the last listing to compare the next with)
Return ==
  /\ pc = "called"
  /\ pc' = "ready"
  /\ call' = NoCall
  /\ prevList' = IF call.op = "list" THEN call.result ELSE prevList
  /\ UNCHANGED <<features, cliVars, thrVars>>

Next ==
  \/ Compile
  \/ CallList
  \/ CallName
  \/ CallParse
  \/ CallInstantiate
  \/ CallCmp
  \/ Return

Spec == Init /\ [][Next]_vars

\* ------------------------------------------------------------------------
\* A run of a command
\* ------------------------------------------------------------------------

\* a built command started with some arguments
InitCli ==
  /\ features \in CliConfigurations
  /\ pc = "start"
  /\ call = NoCall
  /\ prevList = NoList
  /\ app \in Apps
  /\ argv \in Argvs
  /\ NoRun
  /\ boxes = << >>
  /\ threads = NoThreads

\* cli.get_matches(): on an error clap prints it and exits with status 2
GetMatches ==
  /\ pc = "start"
  /\ LET r == get_matches_from(features, Command(app), argv)
     IN  IF r.ok
         THEN /\ m' = r.value
              /\ pc' = IF app = "cksum" THEN "main" ELSE "matched"
              /\ UNCHANGED <<error, exit>>
         ELSE /\ error' = r.kind
              /\ exit' = 2
              /\ pc' = "exit"
              /\ UNCHANGED m
  /\ UNCHANGED <<features, regVars, thrVars, app, argv, stdout, hasher, reads, idx>>

\* the lines of: for algorithm in Digest::value_variants() { println!("{algorithm}") }
list_output(cfg) ==
  LET vs == value_variants(cfg)
  IN  [i \in 1..Len(vs) |-> fmt(cfg, vs[i])]

\* cksum main, the list branch
MainList ==
  /\ pc = "main"
  /\ is_present(m, S_list_algorithms)
  /\ stdout' = stdout \o list_output(features)
  /\ exit' = 0
  /\ pc' = "exit"
  /\ UNCHANGED <<features, regVars, thrVars, app, argv, m, error, hasher, reads, idx>>

\* cksum main, the else branch up to the loop: the inputs, the chosen
\* digest and its hasher
MainSelect ==
  /\ pc = "main"
  /\ ~is_present(m, S_list_algorithms)
  /\ LET b == Box_default(boxes, From(features, get_one(m, S_algorithm)).value)
     IN  /\ boxes' = b.heap
         /\ hasher' = b.handle
  /\ idx' = 1
  /\ pc' = "loop"
  /\ UNCHANGED <<features, regVars, threads, app, argv, m, error, stdout, reads, exit>>

\* one turn of the loop in which hash_path returns Ok: the file is read,
\* the hasher updated with its bytes and finalized, the line printed
HashPathOk ==
  /\ pc = "loop"
  /\ idx <= Len(values_of(m, S_input))
  /\ \E content \in FileContents :
       LET path == values_of(m, S_input)[idx]
           r    == hash_path(boxes[hasher], content)
       IN  /\ reads' = Append(reads, [path |-> path, result |-> Ok(content)])
           /\ stdout' = Append(stdout, hash_line(r.hash, path))
           /\ boxes' = [boxes EXCEPT ![hasher] = r.hasher]
  /\ idx' = idx + 1
  /\ UNCHANGED <<features, regVars, threads, app, argv, m, error, hasher, exit, pc>>

\* a turn of the loop that goes on whatever read_to_string returns
HashPathErr_goes_on ==
  /\ pc = "loop"
  /\ idx <= Len(values_of(m, S_input))
  /\ reads' = Append(reads, [path |-> values_of(m, S_input)[idx], result |-> Err("io")])
  /\ idx' = idx + 1
  /\ UNCHANGED <<features, regVars, thrVars, app, argv, m, error, stdout, hasher, exit, pc>>

\* one turn of the loop in which read_to_string fails: ? returns the error
\* from main, which ends the run with status 1
HashPathErr ==
  /\ pc = "loop"
  /\ idx <= Len(values_of(m, S_input))
  /\ reads' = Append(reads, [path |-> values_of(m, S_input)[idx], result |-> Err("io")])
  /\ error' = "io"
  /\ exit' = 1
  /\ pc' = "exit"
  /\ UNCHANGED <<features, regVars, thrVars, app, argv, m, stdout, hasher, idx>>

\* the loop is over: Ok(())
MainReturn ==
  /\ pc = "loop"
  /\ idx > Len(values_of(m, S_input))
  /\ exit' = 0
  /\ pc' = "exit"
  /\ UNCHANGED <<features, regVars, thrVars, app, argv, m, error, stdout, hasher, reads, idx>>

NextCli ==
  \/ GetMatches
  \/ MainList
  \/ MainSelect
  \/ HashPathOk
  \/ HashPathErr
  \/ MainReturn

SpecCli == InitCli /\ [][NextCli]_vars

\* ------------------------------------------------------------------------
\* Runs of cksum over files
\* ------------------------------------------------------------------------

T_README_md == <<82, 69, 65, 68, 77, 69, 46, 109, 100>>  \* "README.md"

Paths == { T_Cargo_toml, T_README_md }

S_Whirlpool == <<87, 104, 105, 114, 108, 112, 111, 111, 108>>  \* "Whirlpool"

\* the texts given as the algorithm: the names of the md5, sha1 and sha2
\* families, a name of another family, and two texts that are no name
AlgorithmTexts ==
  { NameArms[i].name : i \in { j \in DOMAIN NameArms : NameArms[j].feature \in DocExampleFeatures } }
    \cup { S_Whirlpool, Lower(S_MD5), S_not_a_real_algorithm }

\* nothing, the list flag, or the algorithm option in its two spellings
OptionParts ==
  { << >>, << T_list_algorithms >> }
    \cup { << T_a, t >> : t \in AlgorithmTexts }
    \cup { << T_algorithm, t >> : t \in AlgorithmTexts }

FileParts == UNION { [1..n -> Paths] : n \in 0..MaxFiles }

CksumArgvs == { o \o f : o \in OptionParts, f \in FileParts }

InitCksum ==
  /\ features \in CliConfigurations
  /\ pc = "start"
  /\ call = NoCall
  /\ prevList = NoList
  /\ app = "cksum"
  /\ argv \in CksumArgvs
  /\ NoRun
  /\ boxes = << >>
  /\ threads = NoThreads

SpecCksum == InitCksum /\ [][NextCli]_vars

\* ------------------------------------------------------------------------
\* Threads that use the crate at the same time
\* ------------------------------------------------------------------------

\* two threads, each with a hasher of its own
Threads == { "a", "b" }

\* the builds the threads run in: one identifier, and two
ThreadConfigurations == { { "md5" }, { "md5", "sha1" } }

S_bar == <<98, 97, 114>>  \* "bar"

\* what a thread passes to update
Chunks == { S_foo, S_bar }

NoDigest == [none |-> TRUE]

InitThreads ==
  /\ features \in ThreadConfigurations
  /\ pc = "threads"
  /\ call = NoCall
  /\ prevList = NoList
  /\ app = "none"
  /\ argv = << >>
  /\ NoRun
  /\ boxes = << >>
  /\ threads = [t \in Threads |-> [pc |-> "new"]]

\* let hasher: Box<dyn DynDigest> = id.into(), in a thread
Instantiate ==
  /\ pc = "threads"
  /\ \E t \in Threads, id \in Variants(features) :
       /\ threads[t].pc = "new"
       /\ LET b == Box_default(boxes, From(features, id).value)
          IN  /\ boxes' = b.heap
              /\ threads' = [threads EXCEPT ![t] =
                               [pc |-> "use", id |-> id, handle |-> b.handle,
                                fed |-> << >>, updates |-> 0, got |-> NoDigest]]
  /\ UNCHANGED <<features, pc, regVars, cliVars>>

\* hasher.update(chunk), in a thread
Update ==
  /\ pc = "threads"
  /\ \E t \in Threads, chunk \in Chunks :
       /\ threads[t].pc = "use"
       /\ threads[t].updates < MaxUpdates
       /\ boxes' = [boxes EXCEPT ![threads[t].handle] = update(@, chunk)]
       /\ threads' = [threads EXCEPT ![t].fed = @ \o chunk, ![t].updates = @ + 1]
  /\ UNCHANGED <<features, pc, regVars, cliVars>>

\* hasher.finalize_reset(), in a thread: the thread keeps the digest, with
\* the input it has passed to its hasher since the last one
FinalizeReset ==
  /\ pc = "threads"
  /\ \E t \in Threads :
       /\ threads[t].pc = "use"
       /\ LET r == finalize_reset(boxes[threads[t].handle])
          IN  /\ boxes' = [boxes EXCEPT ![threads[t].handle] = r.hasher]
              /\ threads' = [threads EXCEPT
                               ![t].got = [hash |-> r.hash, input |-> threads[t].fed],
                               ![t].fed = << >>]
  /\ UNCHANGED <<features, pc, regVars, cliVars>>

NextThreads ==
  \/ Instantiate
  \/ Update
  \/ FinalizeReset

SpecThreads == InitThreads /\ [][NextThreads]_vars

\* ------------------------------------------------------------------------
\* Properties of the registry (checked under Spec)
\* ------------------------------------------------------------------------

\* C1: parsing the canonical name of an enabled identifier with the value
\* parser of the digest option succeeds and yields that identifier.
RoundTrip ==
  call.op = "parse" =>
    \A id \in Variants(features) :
       call.arg = name(features, id) => call.result = Ok(id)

\* --digest MD5 yields Digest::MD5
RoundTripWitness ==
  /\ call.op = "parse"
  /\ "md5" \in features
  /\ call.arg = S_MD5
  /\ call.arg = name(features, "MD5")
  /\ call.result = Ok("MD5")

ListSet(cfg) == { value_variants(cfg)[i] : i \in DOMAIN value_variants(cfg) }

NameSet(cfg) == { id \in AllVariants : name(cfg, id) # NoArm }

ParseSet(cfg) == { parse(cfg, t).value : t \in { u \in Texts : parse(cfg, u).ok } }

InstantiateSet(cfg) == { id \in AllVariants : From(cfg, id).ok }

\* C2: the identifiers listed, named, accepted by the parser and convertible
\* to a hasher are the same set, the variants of the enabled families, and
\* the conversion of a member never fails.
RegistryConsistent ==
  /\ pc = "ready" =>
       /\ ListSet(features) = Variants(features)
       /\ NameSet(features) = Variants(features)
       /\ ParseSet(features) = Variants(features)
       /\ InstantiateSet(features) = Variants(features)
  /\ call.op = "instantiate" => call.result.ok

RegistryConsistentWitness ==
  /\ pc = "called"
  /\ call.op = "instantiate"
  /\ features = { "sha2", "tiger" }
  /\ call.arg = "SHA512_256"
  /\ call.result = Ok("sha2::Sha512_256")

\* C3: a configuration builds iff it has a variant; the one without any
\* family is rejected by compile_error!, every gating feature is named in
\* the guard, and a built crate never lists nothing.
NonEmpty ==
  /\ GateFeatures \subseteq CompileErrorFeatures
  /\ pc = "compile_error" => features = {}
  /\ pc # "build" => (pc = "compile_error" <=> Variants(features) = {})
  /\ pc \in { "ready", "called" } => value_variants(features) # << >>

NonEmptyWitness ==
  /\ pc = "compile_error"
  /\ features = {}

\* C4: the parser accepts a text iff it is, byte for byte, the canonical
\* name of an enabled identifier; anything else is an invalid value.
ExactNames ==
  call.op = "parse" =>
    /\ call.result.ok <=> \E id \in Variants(features) : call.arg = name(features, id)
    /\ ~call.result.ok => call.result = Err("InvalidValue")
    /\ call.arg \in { S_empty, S_not_a_real_algorithm } => ~call.result.ok

\* "md5" is refused where "MD5" is accepted
ExactNamesWitness ==
  /\ call.op = "parse"
  /\ "md5" \in features
  /\ call.arg = Lower(S_MD5)
  /\ call.result = Err("InvalidValue")

\* C5: every listing of a run is the same sequence; each enabled identifier
\* occurs in it once, no two entries share a canonical name, and its order
\* is that of the full table restricted to the enabled families.
ListStable ==
  call.op = "list" =>
    LET l == call.result
    IN  /\ prevList # NoList => l = prevList
        /\ \A id \in Variants(features) :
             Cardinality({ i \in DOMAIN l : l[i] = id }) = 1
        /\ \A i \in DOMAIN l : l[i] \in Variants(features)
        /\ \A i, j \in DOMAIN l :
             name(features, l[i]) = name(features, l[j]) => i = j
        /\ l = SelectSeq([i \in DOMAIN ValueVariantsTable |-> ValueVariantsTable[i].variant],
                         LAMBDA v : v \in Variants(features))
        /\ features = DocExampleFeatures =>
             /\ l = << "MD5", "SHA1", "SHA224", "SHA256", "SHA384", "SHA512",
                       "SHA512_224", "SHA512_256" >>
             /\ [i \in DOMAIN l |-> fmt(features, l[i])] =
                  << S_MD5, S_SHA1,
                     <<83, 72, 65, 50, 50, 52>>,                  \* "SHA224"
                     <<83, 72, 65, 50, 53, 54>>,                  \* "SHA256"
                     <<83, 72, 65, 51, 56, 52>>,                  \* "SHA384"
                     <<83, 72, 65, 53, 49, 50>>,                  \* "SHA512"
                     <<83, 72, 65, 53, 49, 50, 47, 50, 50, 52>>,  \* "SHA512/224"
                     <<83, 72, 65, 53, 49, 50, 47, 50, 53, 54>> >>  \* "SHA512/256"

\* a second listing with md5, sha1 and sha2 enabled
ListStableWitness ==
  /\ call.op = "list"
  /\ prevList # NoList
  /\ features = DocExampleFeatures
  /\ Len(call.result) = 8

Position(l, id) == First({ i \in DOMAIN l : l[i] = id })

\* C6 as stated: identifiers are ordered as their canonical names are.
OrderIsLexicographic ==
  call.op = "cmp" =>
    /\ call.result = "Less" <=>
         StrLess(name(features, call.arg[1]), name(features, call.arg[2]))
    /\ call.result = "Equal" <=> call.arg[1] = call.arg[2]

\* C6: identifiers are ordered as the enum declares them, which is the
\* order of the listing; two identifiers are equal iff they are the same.
OrderIsListOrder ==
  call.op = "cmp" =>
    LET l == value_variants(features)
        a == call.arg[1]
        b == call.arg[2]
    IN  /\ call.result = "Less" <=> Position(l, a) < Position(l, b)
        /\ call.result = "Greater" <=> Position(l, a) > Position(l, b)
        /\ call.result = "Equal" <=> a = b

\* SHA384 < SHA3_224 although "SHA3-224" < "SHA384"
OrderIsListOrderWitness ==
  /\ call.op = "cmp"
  /\ call.arg = << "SHA384", "SHA3_224" >>
  /\ call.result = "Less"
  /\ StrLess(name(features, "SHA3_224"), name(features, "SHA384"))

\* ------------------------------------------------------------------------
\* Properties of the commands (checked under SpecCli)
\* ------------------------------------------------------------------------

Parsed == pc # "start"

Accepted == Parsed /\ error \notin { "UnknownArgument", "InvalidValue", "EmptyValue",
                                     "MissingRequiredArgument", "UnexpectedMultipleUsage" }

\* the digest option and the list flag of a command that has both
DigestArg(a) == IF a = "cksum" THEN algorithm ELSE digest

ListArg(a) == IF a = "cksum" THEN list_algorithms ELSE list_digests

\* the user supplies an algorithm: the digest option is on the command line
SuppliesAlgorithm ==
  \E i \in DOMAIN argv :
     \/ argv[i] = <<45, 45>> \o DigestArg(app).long
     \/ argv[i] = <<45>> \o DigestArg(app).short

\* the user asks for the list: the list flag is on the command line
AsksForList ==
  \E i \in DOMAIN argv : argv[i] = <<45, 45>> \o ListArg(app).long

\* C7 as stated: a command line is accepted only with exactly one of the
\* algorithm and the list flag.
ExactlyOneOfDigestAndList ==
  app \in { "myapp", "cksum" } /\ Accepted =>
    /\ SuppliesAlgorithm \/ AsksForList
    /\ ~(SuppliesAlgorithm /\ AsksForList)

\* C7: a command line with neither the algorithm nor the list flag is
\* rejected, so an accepted one has at least one of them; the algorithm is
\* reported missing only when the list flag is absent; a command line with
\* both is accepted.
AtLeastOneOfDigestAndList ==
  app \in { "myapp", "cksum" } /\ Parsed =>
    /\ ~SuppliesAlgorithm /\ ~AsksForList => ~Accepted
    /\ Accepted => is_present(m, DigestArg(app).id) \/ is_present(m, ListArg(app).id)
    /\ error = "MissingRequiredArgument" => ~AsksForList
    /\ app = "myapp" /\ error = "MissingRequiredArgument" => ~SuppliesAlgorithm
    /\ app = "myapp" /\ argv = << >> => error = "MissingRequiredArgument"
    /\ app = "myapp" /\ argv = << T_digest, S_MD5, T_list_digests >> => Accepted

\* --digest MD5 --list-digests is accepted, with both present
AtLeastOneOfDigestAndListWitness ==
  /\ app = "myapp"
  /\ pc = "matched"
  /\ argv = << T_digest, S_MD5, T_list_digests >>
  /\ is_present(m, S_digest)
  /\ is_present(m, S_list_digests)

\* C8: --list-digests alone parses with the flag present, the flag takes no
\* value from the command line, and neither the flag nor arg::digest() on
\* its own makes the digest option required.
ListFlagAlone ==
  Parsed =>
    /\ app = "myapp_list" /\ argv = << T_list_digests >> =>
         Accepted /\ is_present(m, S_list_digests)
    /\ app \in { "myapp_list", "myapp" } /\ Accepted => m[S_list_digests].vals = << >>
    /\ app = "myapp_list" /\ argv = << T_list_digests, S_MD5 >> => error = "UnknownArgument"
    /\ app = "myapp" /\ argv = << T_list_digests, T_digest, S_MD5 >> =>
         Accepted /\ get_one(m, S_digest) = "MD5"
    /\ app = "myapp_list" => error # "MissingRequiredArgument"
    /\ app = "myapp_digest" => error # "MissingRequiredArgument"
    /\ app = "myapp_digest" /\ argv = << >> => Accepted /\ ~is_present(m, S_digest)

ListFlagAloneWitness ==
  /\ app = "myapp_list"
  /\ argv = << T_list_digests >>
  /\ pc = "matched"
  /\ is_present(m, S_list_digests)

CksumSurface ==
  app = "cksum" /\ Parsed /\ "sha1" \in features =>
    /\ argv = << T_d, S_SHA1, T_Cargo_toml >> => Accepted
    /\ argv = << T_digest, S_SHA1, T_Cargo_toml >> => Accepted
    /\ argv = << T_list_digests >> => Accepted

\* ------------------------------------------------------------------------
\* Properties of the threads (checked under SpecThreads)
\* ------------------------------------------------------------------------

\* C11: whatever the interleaving of two threads, the hasher a thread got
\* from its conversion is of the type the conversion gives on its own, is
\* no other thread's hasher, has seen the input of its thread only, and
\* every digest a thread obtains is the digest of its own input.
HashersIndependent ==
  \A t \in DOMAIN threads :
     threads[t].pc = "use" =>
       /\ boxes[threads[t].handle].alg = From(features, threads[t].id).value
       /\ boxes[threads[t].handle].buf = threads[t].fed
       /\ threads[t].got # NoDigest =>
            threads[t].got.hash =
              digest_bytes(From(features, threads[t].id).value, threads[t].got.input)
       /\ \A u \in DOMAIN threads :
            u # t /\ threads[u].pc = "use" => threads[u].handle # threads[t].handle

\* two hashers of the same identifier, fed different inputs in turns, give
\* different digests
HashersIndependentWitness ==
  /\ pc = "threads"
  /\ threads["a"].pc = "use"
  /\ threads["b"].pc = "use"
  /\ threads["a"].id = threads["b"].id
  /\ threads["a"].got # NoDigest
  /\ threads["b"].got # NoDigest
  /\ threads["a"].got.input = S_foo \o S_bar
  /\ threads["b"].got.input = S_bar
  /\ threads["a"].got.hash # threads["b"].got.hash

\* ------------------------------------------------------------------------
\* Properties of the runs of cksum over files (checked under SpecCksum)
\* ------------------------------------------------------------------------

Hashing == app = "cksum" /\ pc \in { "loop", "exit" } /\ hasher # NoHasher

IsLowerHex(c) == (c >= 48 /\ c <= 57) \/ (c >= 97 /\ c <= 102)

\* C12: a run with a recognised algorithm creates one hasher and prints,
\* for each input read, in input order, the lower-case hex of the digest of
\* the bytes of that input alone, two spaces and the path; the hex part has
\* twice as many characters as the digest of the algorithm has bytes; when
\* every input is read there is one line for each.
OneLinePerFile ==
  Hashing =>
    LET inputs == values_of(m, S_input)
        ty     == From(features, get_one(m, S_algorithm)).value
        n      == 2 * output_size(ty)
    IN  /\ Len(boxes) = 1
        /\ boxes[hasher].alg = ty
        /\ boxes[hasher].buf = << >>
        /\ Len(stdout) <= Len(inputs)
        /\ \A i \in DOMAIN stdout :
             /\ reads[i].result.ok
             /\ stdout[i] =
                  hex(digest_bytes(ty, reads[i].result.value)) \o <<32, 32>> \o inputs[i]
             /\ Len(stdout[i]) = n + 2 + Len(inputs[i])
             /\ \A j \in 1..n : IsLowerHex(stdout[i][j])
        /\ pc = "exit" /\ exit = 0 => Len(stdout) = Len(inputs)

\* -a MD5 over two files with the same content: the same 32 hex digits twice
OneLinePerFileWitness ==
  /\ Hashing
  /\ pc = "exit"
  /\ exit = 0
  /\ get_one(m, S_algorithm) = "MD5"
  /\ Len(stdout) = 2
  /\ reads[1].result = Ok(S_foo)
  /\ reads[2].result = Ok(S_foo)
  /\ SubSeq(stdout[1], 1, 32) = SubSeq(stdout[2], 1, 32)
  /\ stdout[1][33] = 32

ParserErrors ==
  { "UnknownArgument", "InvalidValue", "EmptyValue", "MissingRequiredArgument",
    "UnexpectedMultipleUsage" }

\* the text given as the algorithm is not the name of an enabled identifier
NameUnrecognized ==
  \E i \in DOMAIN argv :
     /\ argv[i] \in { T_a, T_algorithm }
     /\ i + 1 <= Len(argv)
     /\ ~starts_with(argv[i + 1], <<45>>)
     /\ ~parse(features, argv[i + 1]).ok

ReadFailed == \E i \in DOMAIN reads : ~reads[i].result.ok

\* C13 as stated: the exit status is non-zero iff the algorithm name is
\* unrecognized or reading some input fails.
ExitStatusOnlyNameOrRead ==
  app = "cksum" /\ pc = "exit" => (exit # 0 <=> NameUnrecognized \/ ReadFailed)

\* C13: the exit status is non-zero iff the argument parser rejects the
\* command line (an unrecognized algorithm name among the reasons) or
\* reading some input fails; the first failing read ends the run: the lines
\* of the inputs before it are printed, none for it, no later input is read
\* and no input is read twice.
FailureHandling ==
  app = "cksum" =>
    /\ pc = "exit" => (exit # 0 <=> error \in ParserErrors \/ ReadFailed)
    /\ pc = "exit" /\ NameUnrecognized => exit # 0
    /\ pc = "exit" /\ error \in ParserErrors => stdout = << >> /\ reads = << >>
    /\ ReadFailed =>
         /\ pc = "exit"
         /\ exit # 0
         /\ ~reads[Len(reads)].result.ok
         /\ \A i \in 1..(Len(reads) - 1) : reads[i].result.ok
         /\ Len(stdout) = Len(reads) - 1
    /\ reads # << >> =>
         /\ Len(reads) <= Len(values_of(m, S_input))
         /\ \A i \in DOMAIN reads : reads[i].path = values_of(m, S_input)[i]

\* the second of three inputs cannot be read
FailureHandlingWitness ==
  /\ app = "cksum"
  /\ pc = "exit"
  /\ error = "io"
  /\ exit = 1
  /\ Len(values_of(m, S_input)) = 3
  /\ Len(reads) = 2
  /\ Len(stdout) = 1

====
